---- MODULE Spec2Model ----
(***************************************************************************)
(* The NFS CSI controller server: CreateVolume / DeleteVolume, the volume  *)
(* id codec, parameter parsing and capability validation.                  *)
(*                                                                         *)
(* A Go string is a sequence of one-character strings, so that             *)
(* strings.Split, strings.Join, strings.ToLower and filepath.Join are      *)
(* computed and not assumed.  A cleaned absolute path is the sequence of   *)
(* its components.                                                         *)
(***************************************************************************)
EXTENDS Integers, Sequences, FiniteSets, TLC

VARIABLES
    driver,       \* nfsDriver: cap (supported access modes), cscap
    mounter,      \* which mount.Interface the node server was built with
    mountPoints,  \* mount table: target path -> stack of mounted exports
    dirs,         \* directories that exist: set of <<host, path>>
    calls,        \* per request slot: position and locals of the handler
    ncalls,       \* number of requests started so far
    lastCreated,  \* the id and directory of the last successful CreateVolume
    detachFailed, \* history: some internalUnmount has returned an error
    codecIn,      \* codec harness: the input under test
    codecOut,     \* codec harness: what the codec returned for it
    parseIn,      \* parameter harness: the name and parameter map under test
    parseOut,     \* parameter harness: what newNFSVolume returned for it
    capsIn,       \* capability harness: the capability list under test
    capsOut       \* capability harness: what the validator returned for it

\* codecIn is an id string (kind "id") or a volume (kind "vol"); codecOut
\* holds the stage reached (0 to 2), the id encoded and the result decoded

vars == <<driver, mounter, mountPoints, dirs, calls, ncalls, lastCreated, detachFailed,
          codecIn, codecOut,
          parseIn, parseOut, capsIn, capsOut>>

-----------------------------------------------------------------------------
(* Bounds *)

\* number of requests served one after the other in one behaviour
MaxCalls == 3
\* number of requests served by the two concurrent slots in one behaviour
MaxConcCalls == 2
\* longest identifier string given to the codec
MaxIdLen == 5
\* longest server, baseDir or subDir given to the codec
MaxSegLen == 2
\* capabilities in a list under test
MaxCapLen == 2

-----------------------------------------------------------------------------
(* Strings *)

Slash == "/"

RECURSIVE Split(_, _)
\* strings.Split(s, sep) for a one-character sep: always at least one token
Split(s, sep) ==
    IF s = <<>> THEN << <<>> >>
    ELSE LET rest == Split(Tail(s), sep) IN
         IF Head(s) = sep
         THEN << <<>> >> \o rest
         ELSE << <<Head(s)>> \o Head(rest) >> \o Tail(rest)

RECURSIVE Join(_, _)
\* strings.Join(elems, sep)
Join(elems, sep) ==
    IF elems = <<>> THEN <<>>
    ELSE IF Len(elems) = 1 THEN Head(elems)
    ELSE Head(elems) \o <<sep>> \o Join(Tail(elems), sep)

\* unicode.ToLower on the letters that occur in the parameter keys
LowerChar(ch) ==
    CASE ch = "S" -> "s"
      [] ch = "E" -> "e"
      [] ch = "R" -> "r"
      [] ch = "V" -> "v"
      [] ch = "B" -> "b"
      [] ch = "A" -> "a"
      [] ch = "D" -> "d"
      [] ch = "I" -> "i"
      [] OTHER -> ch

\* strings.ToLower
ToLower(s) == [i \in DOMAIN s |-> LowerChar(s[i])]

-----------------------------------------------------------------------------
(* Paths: filepath.Join of an absolute first element *)

Dot == <<".">>
DotDot == <<".", ".">>

RECURSIVE CleanComps(_, _)
\* filepath.Clean of a rooted path, component by component
CleanComps(acc, comps) ==
    IF comps = <<>> THEN acc
    ELSE LET c == Head(comps) IN
         CleanComps(
            IF c = <<>> \/ c = Dot THEN acc
            ELSE IF c = DotDot
                 THEN (IF acc = <<>> THEN <<>> ELSE SubSeq(acc, 1, Len(acc) - 1))
                 ELSE Append(acc, c),
            Tail(comps))

RECURSIVE Concat(_)
Concat(seqs) == IF seqs = <<>> THEN <<>> ELSE Head(seqs) \o Concat(Tail(seqs))

\* filepath.Join(elems...) where the first element is absolute:
\* the elements joined by "/" and cleaned
FilepathJoin(elems) ==
    CleanComps(<<>>, Concat([i \in DOMAIN elems |-> Split(elems[i], Slash)]))

\* the string of a cleaned absolute path
PathString(p) ==
    IF p = <<>> THEN <<Slash>>
    ELSE Concat([i \in DOMAIN p |-> <<Slash>> \o p[i]])

IsPrefix(q, p) == Len(q) <= Len(p) /\ SubSeq(p, 1, Len(q)) = q

-----------------------------------------------------------------------------
(* Constants of the controller *)

paramServer == <<"s", "e", "r", "v", "e", "r">>
paramBaseDir == <<"b", "a", "s", "e", "-", "d", "i", "r">>

idServer == 0
idBaseDir == 1
idSubDir == 2
totalIDElements == 3

\* ControllerServer.workingMountDir
workingMountDir == <<Slash, "w">>

NoVol == [id |-> <<>>, server |-> <<>>, baseDir |-> <<>>, subDir |-> <<>>]

-----------------------------------------------------------------------------
(* Volume id codec *)

\* the mutation "server and base directory swapped in the id"
getVolumeIdFromNfsVol_swapped(vol) ==
    Join(<<vol.baseDir, vol.server, vol.subDir>>, Slash)

\* Given a nfsVolume, return a CSI volume id
getVolumeIdFromNfsVol(vol) ==
    LET idElements ==
            [i \in 1..totalIDElements |->
                IF i = idServer + 1 THEN vol.server
                ELSE IF i = idBaseDir + 1 THEN vol.baseDir
                ELSE vol.subDir]
    IN Join(idElements, Slash)

\* Given a CSI volume id, return a nfsVolume or an error
getNfsVolFromId(id) ==
    LET tokens == Split(id, Slash) IN
    IF Len(tokens) # totalIDElements
    THEN [err |-> TRUE, vol |-> NoVol]
    ELSE [err |-> FALSE,
          vol |-> [id |-> id,
                   server |-> tokens[idServer + 1],
                   baseDir |-> tokens[idBaseDir + 1],
                   subDir |-> tokens[idSubDir + 1]]]

-----------------------------------------------------------------------------
(* Driver configuration *)

\* the access modes NewNFSdriver enables
vcam ==
    {"SINGLE_NODE_WRITER", "SINGLE_NODE_READER_ONLY", "MULTI_NODE_READER_ONLY",
     "MULTI_NODE_SINGLE_WRITER", "MULTI_NODE_MULTI_WRITER"}

\* n.cap[c] = true for every c of vc
AddVolumeCapabilityAccessModes(d, vc) == [d EXCEPT !.cap = @ \cup vc]

\* n.cscap = csc
AddControllerServiceCapabilities(d, cl) == [d EXCEPT !.cscap = cl]

NewNFSdriver ==
    AddControllerServiceCapabilities(
        AddVolumeCapabilityAccessModes([cap |-> {}, cscap |-> <<>>], vcam),
        <<"CREATE_DELETE_VOLUME">>)

-----------------------------------------------------------------------------
(* Capability validation.  A capability is Nil or a record with            *)
(* accessMode (NilMode when unset) and accessType ("nil", "mount",         *)
(* "block").  An error is a string, "nil" when there is none.              *)

Nil == [nil |-> TRUE]
NilMode == "nil"

validateVolumeCapability(d, c) ==
    IF c = Nil THEN "volume capability must be provided"
    ELSE IF c.accessMode = NilMode THEN "volume capability access mode not set"
    ELSE IF c.accessMode \notin d.cap THEN "driver does not support access mode"
    ELSE IF c.accessType = "nil" THEN "volume capability access type not set"
    ELSE IF c.accessType # "mount"
         THEN "driver only supports mount access type volume capability"
    ELSE "nil"

\* the mutation "only the first capability is validated"
validateLoop_first(d, caps) ==
    IF caps = <<>> THEN "nil" ELSE validateVolumeCapability(d, Head(caps))

RECURSIVE validateLoop(_, _)
validateLoop(d, caps) ==
    IF caps = <<>> THEN "nil"
    ELSE LET err == validateVolumeCapability(d, Head(caps)) IN
         IF err # "nil" THEN err ELSE validateLoop(d, Tail(caps))

validateVolumeCapabilities(d, caps) ==
    IF Len(caps) = 0 THEN "volume capabilities must be provided"
    ELSE validateLoop(d, caps)

-----------------------------------------------------------------------------
(* Parameter parsing.  params is a function from keys to values; Go        *)
(* iterates a map in an unspecified order, so the result is one of the     *)
(* results of the possible orders.                                         *)

Perms(S) ==
    {q \in [1..Cardinality(S) -> S] : \A i, j \in DOMAIN q : i # j => q[i] # q[j]}

RECURSIVE paramLoop(_, _, _)
\* the range loop of newNFSVolume over the keys in the order ks;
\* acc holds server, baseDir and whether an invalid key was met
paramLoop(params, ks, acc) ==
    IF ks = <<>> \/ acc.err THEN acc
    ELSE LET k == Head(ks)
             v == params[k]
             lk == ToLower(k)
         IN paramLoop(params, Tail(ks),
                IF lk = paramServer THEN [acc EXCEPT !.server = v]
                ELSE IF lk = paramBaseDir THEN [acc EXCEPT !.baseDir = v]
                ELSE [acc EXCEPT !.err = TRUE])

\* newNFSVolume(name, params) with the map iterated in the order ks
newNFSVolumeIn(name, params, ks) ==
    LET got == paramLoop(params, ks, [server |-> <<>>, baseDir |-> <<>>, err |-> FALSE]) IN
    IF got.err THEN [err |-> TRUE, vol |-> NoVol]
    ELSE IF got.server = <<>> THEN [err |-> TRUE, vol |-> NoVol]
    ELSE IF got.baseDir = <<>> THEN [err |-> TRUE, vol |-> NoVol]
    ELSE LET vol == [id |-> <<>>, server |-> got.server,
                     baseDir |-> got.baseDir, subDir |-> name]
         IN [err |-> FALSE, vol |-> [vol EXCEPT !.id = getVolumeIdFromNfsVol(vol)]]

\* the results newNFSVolume can return
newNFSVolume(name, params) ==
    {newNFSVolumeIn(name, params, ks) : ks \in Perms(DOMAIN params)}

-----------------------------------------------------------------------------
(* Paths of a volume *)

\* the mutation "the working directory is keyed by server and name"
getInternalMountPath_perServer(vol) ==
    FilepathJoin(<<workingMountDir, vol.server, vol.subDir>>)

\* Get working directory for CreateVolume and DeleteVolume
getInternalMountPath(vol) == FilepathJoin(<<workingMountDir, vol.subDir>>)

\* Get internal path where the volume is created
getInternalVolumePath(vol) ==
    FilepathJoin(<<PathString(getInternalMountPath(vol)), vol.subDir>>)

\* Get user-visible share path for the volume
getVolumeSharePath(vol) ==
    PathString(FilepathJoin(<< <<Slash>>, vol.baseDir, vol.subDir >>))

\* sharePath of internalMount: filepath.Join("/" + vol.baseDir)
internalSharePath(vol) == FilepathJoin(<< <<Slash>> \o vol.baseDir >>)

NoVolume == [capacityBytes |-> 0, volumeId |-> <<>>,
             volumeContext |-> [server |-> <<>>, share |-> <<>>]]

\* the mutation "the requested capacity is not echoed"
nfsVolToCSI_nocapacity(vol, reqBytes) ==
    [capacityBytes |-> 0,
     volumeId |-> vol.id,
     volumeContext |-> [server |-> vol.server, share |-> getVolumeSharePath(vol)]]

\* Convert into nfsVolume into a csi.Volume
nfsVolToCSI(vol, reqBytes) ==
    [capacityBytes |-> reqBytes,
     volumeId |-> vol.id,
     volumeContext |-> [server |-> vol.server, share |-> getVolumeSharePath(vol)]]

-----------------------------------------------------------------------------
(* The Mounter and the file system.                                        *)
(*                                                                         *)
(* A location is <<host, path>>: host Local for the node's own file        *)
(* system, a server name for an NFS server.  With the real mounter a path  *)
(* under a mount point resolves into the mounted export; the fake mounter  *)
(* of the unit tests records mount points and redirects nothing.           *)

Local == <<"local">>

Parent(p) == SubSeq(p, 1, Len(p) - 1)

Prefixes(p) == {SubSeq(p, 1, n) : n \in 1..Len(p)}

Exists(d, loc) == loc[2] = <<>> \/ loc \in d

\* the export on top of the mounts at target path p
Top(mp, p) == mp[p][Len(mp[p])]

\* Mounter attach: the export e is mounted over target path p
Mount(mp, p, e) ==
    IF p \in DOMAIN mp THEN [mp EXCEPT ![p] = Append(@, e)]
    ELSE [q \in DOMAIN mp \cup {p} |-> IF q = p THEN <<e>> ELSE mp[q]]

\* Mounter detach: the topmost mount at target path p is removed
Unmount(mp, p) ==
    IF p \notin DOMAIN mp THEN mp
    ELSE IF Len(mp[p]) = 1 THEN [q \in DOMAIN mp \ {p} |-> mp[q]]
    ELSE [mp EXCEPT ![p] = SubSeq(@, 1, Len(@) - 1)]

MountPrefixes(mp, p) == {q \in DOMAIN mp : IsPrefix(q, p)}

\* where the local path p leads
Resolve(kind, mp, p) ==
    IF kind = "fake" \/ MountPrefixes(mp, p) = {} THEN <<Local, p>>
    ELSE LET q == CHOOSE q \in MountPrefixes(mp, p) :
                      \A r \in MountPrefixes(mp, p) : Len(r) <= Len(q)
             e == Top(mp, q)
         IN <<e.server, e.share \o SubSeq(p, Len(q) + 1, Len(p))>>

\* whether the Mounter can attach server:share at all
CanMount(kind, d, server, share) == kind = "fake" \/ Exists(d, <<server, share>>)

\* the target directory of a mount is created when missing
MkdirAll(d, p) == d \cup {<<Local, q>> : q \in Prefixes(p)}

\* the mutation "an existing directory is no error" (os.MkdirAll)
Mkdir_lenient(kind, mp, d, p, ioOk) ==
    LET loc == Resolve(kind, mp, p)
        ok == ioOk /\ Exists(d, <<loc[1], Parent(loc[2])>>)
    IN [dirs |-> IF ok THEN d \cup {loc} ELSE d, err |-> ~ok]

\* the mutation "a failed Mkdir removes the path"
Mkdir_rollback(kind, mp, d, p, ioOk) ==
    LET loc == Resolve(kind, mp, p)
        ok == /\ ioOk
              /\ ~Exists(d, loc)
              /\ Exists(d, <<loc[1], Parent(loc[2])>>)
    IN [dirs |-> IF ok THEN d \cup {loc} ELSE d \ {loc}, err |-> ~ok]

\* os.Mkdir(path): fails when the path exists, when its parent does not,
\* or on an I/O error
Mkdir(kind, mp, d, p, ioOk) ==
    LET loc == Resolve(kind, mp, p)
        ok == /\ ioOk
              /\ ~Exists(d, loc)
              /\ Exists(d, <<loc[1], Parent(loc[2])>>)
    IN [dirs |-> IF ok THEN d \cup {loc} ELSE d, err |-> ~ok]

\* os.RemoveAll(path): removes the path and everything below it; an absent
\* path is no error; the root of a mount cannot be removed, only emptied
RemoveAll(kind, mp, d, p, ioOk) ==
    LET loc == Resolve(kind, mp, p)
        busy == kind = "real" /\ p \in DOMAIN mp
        gone == {x \in d : /\ x[1] = loc[1]
                           /\ IsPrefix(loc[2], x[2])
                           /\ (busy => x[2] # loc[2])}
    IN IF ~ioOk THEN [dirs |-> d, err |-> TRUE]
       ELSE [dirs |-> d \ gone, err |-> busy]

-----------------------------------------------------------------------------
(* Requests *)

sv == <<"s">>
tv == <<"t">>
bd == <<"b">>
Servers == {sv, tv}
BaseDirs == {bd}

Names == {<<>>, <<"v">>, <<"u">>, <<"v", Slash>>}

ValidCap == [accessMode |-> "MULTI_NODE_MULTI_WRITER", accessType |-> "mount"]

CapLists ==
    {<<>>,
     <<ValidCap>>,
     <<[accessMode |-> "MULTI_NODE_MULTI_WRITER", accessType |-> "nil"]>>,
     <<ValidCap, [accessMode |-> "UNKNOWN", accessType |-> "mount"]>>}

Params(server, baseDir) ==
    [k \in {paramServer, paramBaseDir} |-> IF k = paramServer THEN server ELSE baseDir]

fooKey == <<"f", "o", "o">>

ParamMaps ==
    {Params(sv, bd),
     Params(tv, bd),
     [k \in {paramServer} |-> sv],
     [k \in {paramBaseDir} |-> bd],
     [k \in {paramServer, paramBaseDir, fooKey} |-> IF k = paramBaseDir THEN bd ELSE sv]}

Bytes == {0, 5}

Id(server, baseDir, name) == server \o <<Slash>> \o baseDir \o <<Slash>> \o name

VolumeIds ==
    {<<>>,
     Id(sv, bd, <<"v">>),
     Id(sv, bd, <<"u">>),
     Id(tv, bd, <<"v">>),
     Id(sv, bd, <<"v", Slash>>),
     Id(sv, bd, <<>>),
     sv \o <<Slash>> \o bd}

CreateVolumeRequest(name, caps, params, bytes) ==
    [name |-> name, caps |-> caps, params |-> params, reqBytes |-> bytes, volumeId |-> <<>>]

DeleteVolumeRequest(id) ==
    [name |-> <<>>, caps |-> <<>>, params |-> <<>>, reqBytes |-> 0, volumeId |-> id]

\* create requests that pass validation
ValidCreateRequests ==
    {CreateVolumeRequest(n, <<ValidCap>>, pm, by) :
        n \in Names \ {<<>>}, pm \in {Params(sv, bd), Params(tv, bd)}, by \in Bytes}

\* create requests that validation rejects: a valid request with the name,
\* the capabilities or the parameters replaced
InvalidCreateRequests ==
    {CreateVolumeRequest(<<>>, <<ValidCap>>, Params(sv, bd), by) : by \in Bytes}
    \cup {CreateVolumeRequest(<<"v">>, cl, Params(sv, bd), 0) : cl \in CapLists \ {<<ValidCap>>}}
    \cup {CreateVolumeRequest(<<"v">>, <<ValidCap>>, pm, 0) :
            pm \in ParamMaps \ {Params(sv, bd), Params(tv, bd)}}

CreateRequests == ValidCreateRequests \cup InvalidCreateRequests

DeleteRequests == {DeleteVolumeRequest(id) : id \in VolumeIds}

\* the requests served concurrently: the ones whose handlers go on to the
\* Mounter
CoreCreateRequests ==
    {CreateVolumeRequest(n, <<ValidCap>>, pm, 0) :
        n \in Names \ {<<>>}, pm \in {Params(sv, bd), Params(tv, bd)}}

CoreDeleteRequests ==
    {DeleteVolumeRequest(id) :
        id \in {Id(sv, bd, <<"v">>), Id(tv, bd, <<"v">>), Id(sv, bd, <<"u">>)}}

Calls == {1, 2}

-----------------------------------------------------------------------------
(* Handler state *)

NoLoc == <<Local, <<>>>>

Ok(volume) == [code |-> "OK", volume |-> volume]
Error(code) == [code |-> code, volume |-> NoVolume]
NoResult == [code |-> "none", volume |-> NoVolume]

NoRequest == DeleteVolumeRequest(<<>>)

\* the directories on the remote exports
Exports(d) == {x \in d : x[1] # Local}

\* the call is not a repetition of the call that returned before it
NoBefore == [repeat |-> FALSE, code |-> "none", exports |-> {}]

\* a slot that serves no request
IdleCall ==
    [pc |-> "idle", op |-> "none", req |-> NoRequest, vol |-> NoVol,
     result |-> NoResult,
     capabilities |-> <<>>,   \* ControllerGetCapabilitiesResponse.Capabilities
     before |-> NoBefore,     \* history: the call this one repeats
     targetPath |-> <<>>,     \* local of internalMount / internalUnmount
     internalVolumePath |-> <<>>,  \* local of the handler
     mountCalls |-> <<>>,     \* target paths passed to NodePublishVolume
     mounted |-> FALSE,       \* internalMount returned nil
     dirop |-> "none",        \* outcome of os.Mkdir / os.RemoveAll
     target |-> NoLoc,        \* where the directory operation acted
     unmountCalls |-> <<>>,   \* target paths passed to NodeUnpublishVolume
     unmountErr |-> FALSE]    \* internalUnmount returned an error

\* the handler has its volume: the paths it will use are functions of the
\* volume alone, and are computed here once
WithVolume(rec, vol) ==
    [rec EXCEPT !.pc = "mount", !.vol = vol,
                !.targetPath = getInternalMountPath(vol),
                !.internalVolumePath = getInternalVolumePath(vol)]

\* the mutation "the name is not checked"
CreateVolumeValidate_noname(d, req) ==
    IF validateVolumeCapabilities(d, req.caps) # "nil"
    THEN {[err |-> TRUE, vol |-> NoVol]}
    ELSE newNFSVolume(req.name, req.params)

\* CreateVolume, "Validate arguments" up to newNFSVolume: the possible
\* outcomes (several only when the parameter map's order matters)
CreateVolumeValidate(d, req) ==
    IF Len(req.name) = 0 THEN {[err |-> TRUE, vol |-> NoVol]}
    ELSE IF validateVolumeCapabilities(d, req.caps) # "nil"
         THEN {[err |-> TRUE, vol |-> NoVol]}
    ELSE newNFSVolume(req.name, req.params)

\* the mutation "an id that cannot be decoded is an error"
DeleteVolumeDecode_strict(req) ==
    IF req.volumeId = <<>> THEN [code |-> "InvalidArgument", vol |-> NoVol]
    ELSE LET r == getNfsVolFromId(req.volumeId) IN
         IF r.err THEN [code |-> "InvalidArgument", vol |-> NoVol]
         ELSE [code |-> "mount", vol |-> r.vol]

\* the mutation "an empty id is an id that cannot be decoded"
DeleteVolumeDecode_emptyok(req) ==
    LET r == getNfsVolFromId(req.volumeId) IN
    IF r.err THEN [code |-> "OK", vol |-> NoVol]
    ELSE [code |-> "mount", vol |-> r.vol]

\* DeleteVolume up to getNfsVolFromId
DeleteVolumeDecode(req) ==
    IF req.volumeId = <<>> THEN [code |-> "InvalidArgument", vol |-> NoVol]
    ELSE LET r == getNfsVolFromId(req.volumeId) IN
         IF r.err THEN [code |-> "OK", vol |-> NoVol]
         ELSE [code |-> "mount", vol |-> r.vol]

\* the mutation "the error of internalMount is ignored"
AfterMount_ignored(rec, err) == [rec EXCEPT !.pc = "dirop", !.mounted = ~err]

\* after internalMount: an error is returned as Internal, before the defer
AfterMount(rec, err) ==
    IF err THEN [rec EXCEPT !.pc = "done", !.result = Error("Internal")]
    ELSE [rec EXCEPT !.pc = "dirop", !.mounted = TRUE]

\* the mutation "a failed Mkdir returns without the deferred unmount"
AfterMkdir_nodefer(rec, err, bytes) ==
    IF err THEN [rec EXCEPT !.pc = "done", !.dirop = "err", !.result = Error("Internal")]
    ELSE [rec EXCEPT !.pc = "unmount", !.dirop = "ok",
                     !.result = Ok(nfsVolToCSI(rec.vol, bytes))]

\* after os.Mkdir: the result is decided and the deferred unmount is next
AfterMkdir(rec, err, bytes) ==
    IF err THEN [rec EXCEPT !.pc = "unmount", !.dirop = "err", !.result = Error("Internal")]
    ELSE [rec EXCEPT !.pc = "unmount", !.dirop = "ok",
                     !.result = Ok(nfsVolToCSI(rec.vol, bytes))]

\* the mutation "a failed RemoveAll returns without the deferred unmount"
AfterRemoveAll_nodefer(rec, err) ==
    IF err THEN [rec EXCEPT !.pc = "done", !.dirop = "err", !.result = Error("Internal")]
    ELSE [rec EXCEPT !.pc = "unmount", !.dirop = "ok", !.result = Ok(NoVolume)]

\* after os.RemoveAll
AfterRemoveAll(rec, err) ==
    IF err THEN [rec EXCEPT !.pc = "unmount", !.dirop = "err", !.result = Error("Internal")]
    ELSE [rec EXCEPT !.pc = "unmount", !.dirop = "ok", !.result = Ok(NoVolume)]

\* the mutation "the deferred function's error becomes the handler's error"
Deferred_override(rec, err) ==
    IF err THEN [rec EXCEPT !.pc = "done", !.unmountErr = TRUE, !.result = Error("Internal")]
    ELSE [rec EXCEPT !.pc = "done"]

\* the deferred function: an unmount error is logged, the values already
\* returned are not touched
Deferred(rec, err) == [rec EXCEPT !.pc = "done", !.unmountErr = err]

\* history of a call that starts in slot c: when the slot's last call had
\* the same request and has returned, its result code and the directories
\* of the exports it left
Before(c, op, req) ==
    IF calls[c].pc = "done" /\ calls[c].op = op /\ calls[c].req = req
    THEN [repeat |-> TRUE, code |-> calls[c].result.code, exports |-> Exports(dirs)]
    ELSE NoBefore

-----------------------------------------------------------------------------
(* Actions *)

codecVars == <<codecIn, codecOut>>
paramVars == <<parseIn, parseOut>>
capVars == <<capsIn, capsOut>>
harnessVars == <<codecVars, paramVars, capVars>>

\* CreateVolume is called: arguments are validated and the volume is built
CreateVolume(c, req) ==
    /\ calls[c].pc \in {"idle", "done"}
    /\ ncalls < MaxCalls
    /\ ncalls' = ncalls + 1
    /\ \E r \in CreateVolumeValidate(driver, req) :
         LET rec == [IdleCall EXCEPT !.op = "create", !.req = req,
                                    !.before = Before(c, "create", req)] IN
         calls' = [calls EXCEPT ![c] =
                     IF r.err
                     THEN [rec EXCEPT !.pc = "done", !.result = Error("InvalidArgument")]
                     ELSE WithVolume(rec, r.vol)]
    /\ UNCHANGED <<driver, mounter, mountPoints, dirs, lastCreated, detachFailed, harnessVars>>

\* DeleteVolume is called: the volume id is decoded
DeleteVolume(c, req) ==
    /\ calls[c].pc \in {"idle", "done"}
    /\ ncalls < MaxCalls
    /\ ncalls' = ncalls + 1
    /\ LET rec == [IdleCall EXCEPT !.op = "delete", !.req = req,
                                   !.before = Before(c, "delete", req)]
           r == DeleteVolumeDecode(req)
       IN calls' = [calls EXCEPT ![c] =
                     IF r.code = "mount" THEN WithVolume(rec, r.vol)
                     ELSE IF r.code = "OK" THEN [rec EXCEPT !.pc = "done", !.result = Ok(NoVolume)]
                     ELSE [rec EXCEPT !.pc = "done", !.result = Error(r.code)]]
    /\ UNCHANGED <<driver, mounter, mountPoints, dirs, lastCreated, detachFailed, harnessVars>>

\* the mutation "the capabilities are handed over, not copied"
ControllerGetCapabilities_moved(c) ==
    /\ calls[c].pc \in {"idle", "done"}
    /\ ncalls < MaxCalls
    /\ ncalls' = ncalls + 1
    /\ calls' = [calls EXCEPT ![c] =
                   [IdleCall EXCEPT !.op = "getcaps", !.pc = "done",
                                    !.result = Ok(NoVolume),
                                    !.capabilities = driver.cscap]]
    /\ driver' = [driver EXCEPT !.cscap = <<>>]
    /\ UNCHANGED <<mounter, mountPoints, dirs, lastCreated, detachFailed, harnessVars>>

\* ControllerGetCapabilities: the response holds cs.Driver.cscap
ControllerGetCapabilities(c) ==
    /\ calls[c].pc \in {"idle", "done"}
    /\ ncalls < MaxCalls
    /\ ncalls' = ncalls + 1
    /\ calls' = [calls EXCEPT ![c] =
                   [IdleCall EXCEPT !.op = "getcaps", !.pc = "done",
                                    !.result = Ok(NoVolume),
                                    !.capabilities = driver.cscap]]
    /\ UNCHANGED <<driver, mounter, mountPoints, dirs, lastCreated, detachFailed, harnessVars>>

\* the mutation "after a failed directory operation the handler returns
\* without the detach"
InternalUnmount_skipped(c, ok) ==
    LET rec == calls[c]
        targetPath == rec.targetPath
        called == [rec EXCEPT !.unmountCalls = Append(@, targetPath)]
        skip == rec.dirop = "err"
        after == IF skip THEN [rec EXCEPT !.pc = "done"] ELSE Deferred(called, ~ok)
    IN /\ rec.pc = "unmount"
       /\ mountPoints' = IF ok /\ ~skip THEN Unmount(mountPoints, targetPath) ELSE mountPoints
       /\ calls' = [calls EXCEPT ![c] = after]
       /\ lastCreated' = IF after.op = "create" /\ after.result.code = "OK"
                         THEN [id |-> after.result.volume.volumeId, target |-> after.target]
                         ELSE lastCreated
       /\ detachFailed' = (detachFailed \/ (~ok /\ ~skip))
       /\ UNCHANGED <<driver, mounter, dirs, ncalls, harnessVars>>

\* the mutation "the attach waits until the mount path is free"
InternalMount_exclusive(c, ok) ==
    LET rec == calls[c]
        targetPath == rec.targetPath
        sharePath == internalSharePath(rec.vol)
        done == ok /\ CanMount(mounter, dirs, rec.vol.server, sharePath)
        called == [rec EXCEPT !.mountCalls = Append(@, targetPath)]
    IN /\ rec.pc = "mount"
       /\ targetPath \notin DOMAIN mountPoints
       /\ calls' = [calls EXCEPT ![c] = AfterMount(called, ~done)]
       /\ IF done
          THEN /\ mountPoints' = Mount(mountPoints, targetPath,
                                       [server |-> rec.vol.server, share |-> sharePath])
               /\ dirs' = MkdirAll(dirs, targetPath)
          ELSE UNCHANGED <<mountPoints, dirs>>
       /\ UNCHANGED <<driver, mounter, ncalls, lastCreated, detachFailed, harnessVars>>

\* internalMount: NodePublishVolume of server:/baseDir at the internal
\* mount path returns, with or without an error
InternalMount(c, ok) ==
    LET rec == calls[c]
        targetPath == rec.targetPath
        sharePath == internalSharePath(rec.vol)
        done == ok /\ CanMount(mounter, dirs, rec.vol.server, sharePath)
        called == [rec EXCEPT !.mountCalls = Append(@, targetPath)]
    IN /\ rec.pc = "mount"
       /\ calls' = [calls EXCEPT ![c] = AfterMount(called, ~done)]
       /\ IF done
          THEN /\ mountPoints' = Mount(mountPoints, targetPath,
                                       [server |-> rec.vol.server, share |-> sharePath])
               /\ dirs' = MkdirAll(dirs, targetPath)
          ELSE UNCHANGED <<mountPoints, dirs>>
       /\ UNCHANGED <<driver, mounter, ncalls, lastCreated, detachFailed, harnessVars>>

\* CreateVolume: os.Mkdir(internalVolumePath, 0755)
MkdirStep(c, ioOk) ==
    LET rec == calls[c]
        path == rec.internalVolumePath
        r == Mkdir(mounter, mountPoints, dirs, path, ioOk)
        at == [rec EXCEPT !.target = Resolve(mounter, mountPoints, path)]
    IN /\ rec.pc = "dirop"
       /\ rec.op = "create"
       /\ dirs' = r.dirs
       /\ calls' = [calls EXCEPT ![c] = AfterMkdir(at, r.err, rec.req.reqBytes)]
       /\ UNCHANGED <<driver, mounter, mountPoints, ncalls, lastCreated, detachFailed, harnessVars>>

\* DeleteVolume: os.RemoveAll(internalVolumePath)
RemoveAllStep(c, ioOk) ==
    LET rec == calls[c]
        path == rec.internalVolumePath
        r == RemoveAll(mounter, mountPoints, dirs, path, ioOk)
        at == [rec EXCEPT !.target = Resolve(mounter, mountPoints, path)]
    IN /\ rec.pc = "dirop"
       /\ rec.op = "delete"
       /\ dirs' = r.dirs
       /\ calls' = [calls EXCEPT ![c] = AfterRemoveAll(at, r.err)]
       /\ UNCHANGED <<driver, mounter, mountPoints, ncalls, lastCreated, detachFailed, harnessVars>>

\* the deferred internalUnmount: NodeUnpublishVolume of the internal mount
\* path returns, with or without an error; then the handler returns
InternalUnmount(c, ok) ==
    LET rec == calls[c]
        targetPath == rec.targetPath
        called == [rec EXCEPT !.unmountCalls = Append(@, targetPath)]
        after == Deferred(called, ~ok)
    IN /\ rec.pc = "unmount"
       /\ mountPoints' = IF ok THEN Unmount(mountPoints, targetPath) ELSE mountPoints
       /\ calls' = [calls EXCEPT ![c] = after]
       /\ lastCreated' = IF after.op = "create" /\ after.result.code = "OK"
                         THEN [id |-> after.result.volume.volumeId, target |-> after.target]
                         ELSE lastCreated
       /\ detachFailed' = (detachFailed \/ ~ok)
       /\ UNCHANGED <<driver, mounter, dirs, ncalls, harnessVars>>

InitDirs == {<<s, <<b>>>> : s \in Servers, b \in BaseDirs}

NoCreated == [id |-> <<>>, target |-> NoLoc]

NoCodec == [kind |-> "none", id |-> <<>>, vol |-> NoVol]
NoCodecOut == [stage |-> 0, id |-> <<>>, res |-> [err |-> FALSE, vol |-> NoVol]]
NoParse == [name |-> <<>>, params |-> <<>>]
NoParseOut == [done |-> FALSE, res |-> [err |-> FALSE, vol |-> NoVol]]
NoCaps == <<>>
NoCapsOut == [done |-> FALSE, err |-> "nil"]

\* the harnesses of the pure functions are not in use
NoHarness ==
    /\ parseIn = NoParse
    /\ parseOut = NoParseOut
    /\ capsIn = NoCaps
    /\ capsOut = NoCapsOut

Init ==
    /\ driver = NewNFSdriver
    /\ mounter \in {"fake", "real"}
    /\ mountPoints = <<>>
    /\ dirs = InitDirs
    /\ calls = [c \in Calls |-> IdleCall]
    /\ ncalls = 0
    /\ lastCreated = NoCreated
    /\ detachFailed = FALSE
    /\ codecIn = NoCodec
    /\ codecOut = NoCodecOut
    /\ NoHarness

\* a request is served by the first slot that is free
Free(c) ==
    /\ ncalls < MaxConcCalls
    /\ \A b \in Calls : b < c => calls[b].pc \notin {"idle", "done"}

\* two request slots served concurrently
Next ==
    \E c \in Calls :
        \/ \E req \in CoreCreateRequests : Free(c) /\ CreateVolume(c, req)
        \/ \E req \in CoreDeleteRequests : Free(c) /\ DeleteVolume(c, req)
        \/ \E ok \in BOOLEAN : InternalMount(c, ok)
        \/ \E ioOk \in BOOLEAN : MkdirStep(c, ioOk)
        \/ \E ioOk \in BOOLEAN : RemoveAllStep(c, ioOk)
        \/ \E ok \in BOOLEAN : InternalUnmount(c, ok)

Spec == Init /\ [][Next]_vars

\* the next step of the handler in slot c: a call to the Mounter or to the
\* file system returns
HandlerStep(c) ==
    \/ \E ok \in BOOLEAN : InternalMount(c, ok)
    \/ \E ioOk \in BOOLEAN : MkdirStep(c, ioOk)
    \/ \E ioOk \in BOOLEAN : RemoveAllStep(c, ioOk)
    \/ \E ok \in BOOLEAN : InternalUnmount(c, ok)

\* the requests of the concurrent handlers whose return is checked: two
\* names, one of them on both servers
LiveCreateRequests ==
    {CreateVolumeRequest(<<"v">>, <<ValidCap>>, Params(sv, bd), 0),
     CreateVolumeRequest(<<"v">>, <<ValidCap>>, Params(tv, bd), 0),
     CreateVolumeRequest(<<"u">>, <<ValidCap>>, Params(sv, bd), 0)}

LiveDeleteRequests ==
    {DeleteVolumeRequest(Id(sv, bd, <<"v">>)), DeleteVolumeRequest(Id(tv, bd, <<"v">>))}

NextLive ==
    \E c \in Calls :
        \/ \E req \in LiveCreateRequests : Free(c) /\ CreateVolume(c, req)
        \/ \E req \in LiveDeleteRequests : Free(c) /\ DeleteVolume(c, req)
        \/ HandlerStep(c)

\* the concurrent handlers when every call they make returns
SpecLive == Init /\ [][NextLive]_vars /\ \A c \in Calls : WF_vars(HandlerStep(c))

\* one request at a time, every request
NextSeq ==
    \/ \E req \in CreateRequests : CreateVolume(1, req)
    \/ \E req \in DeleteRequests : DeleteVolume(1, req)
    \/ ControllerGetCapabilities(1)
    \/ \E ok \in BOOLEAN : InternalMount(1, ok)
    \/ \E ioOk \in BOOLEAN : MkdirStep(1, ioOk)
    \/ \E ioOk \in BOOLEAN : RemoveAllStep(1, ioOk)
    \/ \E ok \in BOOLEAN : InternalUnmount(1, ok)

SpecSeq == Init /\ [][NextSeq]_vars

-----------------------------------------------------------------------------
(* The codec on its own: every id string and every volume within the      *)
(* bounds is decoded and encoded back, or encoded and decoded back.        *)

Strings(alphabet, n) == UNION {[1..k -> alphabet] : k \in 0..n}

IdStrings == Strings({"a", "b", Slash}, MaxIdLen)

Segments == Strings({"a", Slash}, MaxSegLen)

CodecVolumes ==
    {[id |-> <<>>, server |-> s, baseDir |-> b, subDir |-> n] :
        s \in Segments, b \in Segments, n \in Segments}

InitCodec ==
    /\ driver = NewNFSdriver
    /\ mounter = "fake"
    /\ mountPoints = <<>>
    /\ dirs = InitDirs
    /\ calls = [c \in Calls |-> IdleCall]
    /\ ncalls = 0
    /\ lastCreated = NoCreated
    /\ detachFailed = FALSE
    /\ codecIn \in {[kind |-> "id", id |-> s, vol |-> NoVol] : s \in IdStrings}
                  \cup {[kind |-> "vol", id |-> <<>>, vol |-> v] : v \in CodecVolumes}
    /\ codecOut = NoCodecOut
    /\ NoHarness

workflowVars ==
    <<driver, mounter, mountPoints, dirs, calls, ncalls, lastCreated, detachFailed>>

\* getNfsVolFromId(id)
CodecDecode ==
    /\ codecIn.kind = "id"
    /\ codecOut.stage = 0
    /\ codecOut' = [codecOut EXCEPT !.stage = 1, !.res = getNfsVolFromId(codecIn.id)]
    /\ UNCHANGED <<workflowVars, codecIn, paramVars, capVars>>

\* getVolumeIdFromNfsVol of the volume decoded
CodecEncodeBack ==
    /\ codecIn.kind = "id"
    /\ codecOut.stage = 1
    /\ ~codecOut.res.err
    /\ codecOut' = [codecOut EXCEPT !.stage = 2, !.id = getVolumeIdFromNfsVol(codecOut.res.vol)]
    /\ UNCHANGED <<workflowVars, codecIn, paramVars, capVars>>

\* getVolumeIdFromNfsVol(vol)
CodecEncode ==
    /\ codecIn.kind = "vol"
    /\ codecOut.stage = 0
    /\ codecOut' = [codecOut EXCEPT !.stage = 1, !.id = getVolumeIdFromNfsVol(codecIn.vol)]
    /\ UNCHANGED <<workflowVars, codecIn, paramVars, capVars>>

\* getNfsVolFromId of the id encoded
CodecDecodeBack ==
    /\ codecIn.kind = "vol"
    /\ codecOut.stage = 1
    /\ codecOut' = [codecOut EXCEPT !.stage = 2, !.res = getNfsVolFromId(codecOut.id)]
    /\ UNCHANGED <<workflowVars, codecIn, paramVars, capVars>>

NextCodec == CodecDecode \/ CodecEncodeBack \/ CodecEncode \/ CodecDecodeBack

SpecCodec == InitCodec /\ [][NextCodec]_vars

-----------------------------------------------------------------------------
(* Parameter parsing on its own: newNFSVolume applied to a name and a      *)
(* parameter map, and CreateVolume called with the same map                *)

serverKeys == {paramServer, <<"S", "E", "R", "V", "E", "R">>}
baseDirKeys == {paramBaseDir, <<"B", "a", "s", "e", "-", "D", "i", "r">>}
ParamKeys == serverKeys \cup baseDirKeys \cup {fooKey}
ParamValues == {<<>>, sv, tv}

\* every map from some of the keys to the values
AllParamMaps == UNION {[ks -> ParamValues] : ks \in SUBSET ParamKeys}

InitParams ==
    /\ driver = NewNFSdriver
    /\ mounter = "fake"
    /\ mountPoints = <<>>
    /\ dirs = InitDirs
    /\ calls = [c \in Calls |-> IdleCall]
    /\ ncalls = 0
    /\ lastCreated = NoCreated
    /\ detachFailed = FALSE
    /\ codecIn = NoCodec
    /\ codecOut = NoCodecOut
    /\ parseIn \in {[name |-> n, params |-> pm] : n \in {<<"v">>, <<"u">>}, pm \in AllParamMaps}
    /\ parseOut = NoParseOut
    /\ capsIn = NoCaps
    /\ capsOut = NoCapsOut

\* newNFSVolume(name, params) returns one of its possible results
ParseParams ==
    /\ ~parseOut.done
    /\ \E r \in newNFSVolume(parseIn.name, parseIn.params) :
         parseOut' = [done |-> TRUE, res |-> r]
    /\ UNCHANGED <<workflowVars, codecVars, parseIn, capVars>>

\* CreateVolume is called with the name and the map, and valid capabilities
CreateWithParams ==
    CreateVolume(1, CreateVolumeRequest(parseIn.name, <<ValidCap>>, parseIn.params, 0))

NextParams == ParseParams \/ CreateWithParams

SpecParams == InitParams /\ [][NextParams]_vars

-----------------------------------------------------------------------------
(* Claims about the codec *)

NoSlash(s) == \A i \in DOMAIN s : s[i] # Slash

\* the id is three non-empty segments separated by two slashes
WellFormedId(s) ==
    /\ Cardinality({i \in DOMAIN s : s[i] = Slash}) = 2
    /\ Len(s) > 0
    /\ s[1] # Slash
    /\ s[Len(s)] # Slash
    /\ \A i \in 1..(Len(s) - 1) : ~(s[i] = Slash /\ s[i + 1] = Slash)

\* C5: getNfsVolFromId returns an error for every string that is not three
\* non-empty segments separated by "/"
C5_DecodeRejectsMalformed ==
    (codecIn.kind = "id" /\ codecOut.stage >= 1 /\ ~WellFormedId(codecIn.id))
        => codecOut.res.err

\* C6: decoding an encoded volume of non-empty segments without "/" gives
\* back its three fields, with the encoded string as id; and encoding a
\* decoded id gives back the id
C6_RoundTrip ==
    /\ (/\ codecIn.kind = "vol"
        /\ codecOut.stage = 2
        /\ \A f \in {codecIn.vol.server, codecIn.vol.baseDir, codecIn.vol.subDir} :
               f # <<>> /\ NoSlash(f))
       => /\ ~codecOut.res.err
          /\ codecOut.res.vol = [codecIn.vol EXCEPT !.id = codecOut.id]
          /\ codecOut.id = codecIn.vol.server \o <<Slash>> \o codecIn.vol.baseDir
                               \o <<Slash>> \o codecIn.vol.subDir
    /\ (codecIn.kind = "id" /\ codecOut.stage = 2) => codecOut.id = codecIn.id

\* a volume with distinct segments has been encoded and decoded back
C6_Witness ==
    /\ codecIn.kind = "vol"
    /\ codecOut.stage = 2
    /\ codecIn.vol.server = <<"a">>
    /\ codecIn.vol.baseDir = <<"a", "a">>
    /\ codecIn.vol.subDir = <<"a">>
    /\ ~codecOut.res.err

-----------------------------------------------------------------------------
(* Claims about the attach / detach discipline *)

Handlers == {c \in Calls : calls[c].op # "none"}

\* C1: a call whose internalMount succeeded has called internalUnmount for
\* the same target path exactly once when it returns, after a directory
\* operation that succeeded and after one that failed; before it returns it
\* has called it at most once
C1_DetachOnceAfterAttach ==
    \A c \in Handlers :
        LET rec == calls[c] IN
        /\ Len(rec.unmountCalls) <= 1
        /\ (rec.pc = "done" /\ rec.mounted)
              => /\ Len(rec.mountCalls) = 1
                 /\ rec.unmountCalls = rec.mountCalls
                 /\ rec.dirop \in {"ok", "err"}

\* a CreateVolume has returned after its Mkdir failed and its unmount ran
C1_Witness ==
    \E c \in Handlers :
        /\ calls[c].pc = "done"
        /\ calls[c].op = "create"
        /\ calls[c].mounted
        /\ calls[c].dirop = "err"
        /\ Len(calls[c].unmountCalls) = 1

\* what the handler returns when only the mount and the directory operation
\* decide it
PrimaryResult(rec) ==
    IF rec.dirop = "err" THEN Error("Internal")
    ELSE IF rec.op = "delete" THEN Ok(NoVolume)
    ELSE [code |-> "OK",
          volume |-> [capacityBytes |-> rec.req.reqBytes,
                      volumeId |-> rec.vol.id,
                      volumeContext |-> rec.result.volume.volumeContext]]

\* C2: a failing internalUnmount does not change what is returned: the
\* result of a call that mounted is decided by its directory operation
\* (success when it succeeded, Internal when it failed), and two calls with
\* the same request, volume and directory outcome return the same, whether
\* or not their unmounts failed
C2_DetachFailureNotReturned ==
    /\ \A c \in Handlers :
          (calls[c].pc = "done" /\ calls[c].mounted)
             => calls[c].result = PrimaryResult(calls[c])
    /\ \A c1, c2 \in Handlers :
          (/\ calls[c1].pc = "done" /\ calls[c2].pc = "done"
           /\ calls[c1].mounted /\ calls[c2].mounted
           /\ calls[c1].op = calls[c2].op
           /\ calls[c1].req = calls[c2].req
           /\ calls[c1].vol = calls[c2].vol
           /\ calls[c1].dirop = calls[c2].dirop)
             => calls[c1].result = calls[c2].result

\* two calls with the same request and directory outcome have returned, one
\* after a failed unmount and one after a successful unmount
C2_Witness ==
    \E c1, c2 \in Handlers :
        /\ calls[c1].pc = "done" /\ calls[c2].pc = "done"
        /\ calls[c1].op = "create" /\ calls[c2].op = "create"
        /\ calls[c1].req = calls[c2].req
        /\ calls[c1].dirop = "err" /\ calls[c2].dirop = "err"
        /\ calls[c1].unmountErr /\ ~calls[c2].unmountErr

-----------------------------------------------------------------------------
(* Claims about concurrent calls *)

InProgress(c) == calls[c].pc \in {"mount", "dirop", "unmount"}

Attached(c) == calls[c].pc \in {"dirop", "unmount"} /\ calls[c].mounted

\* the sub-directory a volume stands for: directory subDir of the export
\* server:/baseDir, which the fake mounter leaves at the local path
OwnDirectory(vol) ==
    IF mounter = "real"
    THEN <<vol.server, FilepathJoin(<< <<Slash>>, vol.baseDir, vol.subDir >>)>>
    ELSE <<Local, FilepathJoin(<<workingMountDir, vol.subDir, vol.subDir>>)>>

\* two CreateVolume calls in slots c1 and c2, with different names taken
\* from names, on the same server and base directory
CreatePair(c1, c2, names) ==
    /\ c1 # c2
    /\ calls[c1].op = "create" /\ calls[c2].op = "create"
    /\ calls[c1].vol.subDir \in names /\ calls[c2].vol.subDir \in names
    /\ calls[c1].vol.subDir # calls[c2].vol.subDir
    /\ calls[c1].vol.server = calls[c2].vol.server
    /\ calls[c1].vol.baseDir = calls[c2].vol.baseDir

\* the two calls of a pair do not interfere
Independent(names) ==
    \A c1, c2 \in Calls :
        CreatePair(c1, c2, names) =>
            \* different local attach paths
            /\ (InProgress(c1) /\ InProgress(c2))
                  => getInternalMountPath(calls[c1].vol) # getInternalMountPath(calls[c2].vol)
            \* a call that is attached has its attachment, whatever the other did
            /\ Attached(c1)
                  => /\ getInternalMountPath(calls[c1].vol) \in DOMAIN mountPoints
                     /\ Top(mountPoints, getInternalMountPath(calls[c1].vol)).server
                            = calls[c1].vol.server
            \* each directory operation acted on the call's own sub-directory
            /\ calls[c1].dirop # "none" => calls[c1].target = OwnDirectory(calls[c1].vol)
            \* with no failure both succeed and both sub-directories exist
            /\ (/\ ncalls = 2
                /\ calls[c1].pc = "done" /\ calls[c2].pc = "done"
                /\ calls[c1].dirop = "ok" /\ calls[c2].dirop = "ok")
                  => /\ calls[c1].result.code = "OK"
                     /\ calls[c2].result.code = "OK"
                     /\ OwnDirectory(calls[c1].vol) \in dirs
                     /\ OwnDirectory(calls[c2].vol) \in dirs
                     /\ OwnDirectory(calls[c1].vol) # OwnDirectory(calls[c2].vol)

\* C3: two concurrent CreateVolume calls with different names on the same
\* server and base directory use different local attach paths, keep their
\* attachments and, when nothing fails, both succeed with both
\* sub-directories existing
C3_ConcurrentCreatesIndependent == Independent(Names)

\* what holds of C3: the same for names without "/"
C3_IndependentForPlainNames == Independent({n \in Names : NoSlash(n)})

\* two concurrent creates with different plain names have both succeeded
C3_PlainNamesWitness ==
    /\ CreatePair(1, 2, {n \in Names : NoSlash(n)})
    /\ ncalls = 2
    /\ calls[1].pc = "done" /\ calls[2].pc = "done"
    /\ calls[1].dirop = "ok" /\ calls[2].dirop = "ok"

\* C4: calls with the same volume name use the same local attach path,
\* whatever their server and base directory
C4_SameNameSharesAttachPath ==
    \A c1, c2 \in Handlers :
        (/\ calls[c1].vol.subDir = calls[c2].vol.subDir
         /\ calls[c1].mountCalls # <<>>
         /\ calls[c2].mountCalls # <<>>)
            => calls[c1].mountCalls = calls[c2].mountCalls

\* the race of C4: call c1 is between its attach and its directory
\* operation, call c2 of another server has attached at the same path and
\* detached, and the path of c1 now leads to the export of c2
C4_RaceWitness ==
    \E c1, c2 \in Handlers :
        /\ c1 # c2
        /\ calls[c1].pc = "dirop" /\ calls[c1].mounted
        /\ calls[c2].pc = "done" /\ calls[c2].mounted /\ ~calls[c2].unmountErr
        /\ calls[c1].vol.subDir = calls[c2].vol.subDir
        /\ calls[c1].vol.server # calls[c2].vol.server
        /\ calls[c2].unmountCalls = calls[c1].mountCalls
        /\ mounter = "real"
        /\ Resolve(mounter, mountPoints, getInternalVolumePath(calls[c1].vol))[1]
              = calls[c2].vol.server

-----------------------------------------------------------------------------
(* Claims about one call at a time *)

\* a create request with the parameters server = s and base-dir = b whose
\* mount and Mkdir succeeded has returned in slot c
CreatedWith(c, s, b) ==
    /\ calls[c].op = "create"
    /\ calls[c].pc = "done"
    /\ calls[c].req.name # <<>>
    /\ calls[c].req.params = Params(s, b)
    /\ calls[c].mounted
    /\ calls[c].dirop = "ok"

Rejected(req) ==
    \/ req.name = <<>>
    \/ validateVolumeCapabilities(driver, req.caps) # "nil"
    \/ \E k \in DOMAIN req.params : ToLower(k) \notin {paramServer, paramBaseDir}
    \/ ~\E k \in DOMAIN req.params : ToLower(k) = paramServer /\ req.params[k] # <<>>
    \/ ~\E k \in DOMAIN req.params : ToLower(k) = paramBaseDir /\ req.params[k] # <<>>

NoSideEffects(c) ==
    /\ calls'[c].mountCalls = <<>>
    /\ calls'[c].unmountCalls = <<>>
    /\ calls'[c].dirop = "none"
    /\ dirs' = dirs
    /\ mountPoints' = mountPoints

\* C8: a CreateVolume that validation rejects returns InvalidArgument and
\* has called neither the Mounter nor the file system
C8_InvalidCreateStep ==
    \A c \in Calls :
        (/\ calls'[c] # calls[c]
         /\ calls'[c].op = "create"
         /\ Rejected(calls'[c].req))
            => /\ calls'[c].pc = "done"
               /\ calls'[c].result = Error("InvalidArgument")
               /\ NoSideEffects(c)

C8_InvalidCreateNoSideEffects == [][C8_InvalidCreateStep]_vars

\* a create with an unrecognized parameter key has been rejected
C8_Witness ==
    /\ calls[1].op = "create"
    /\ calls[1].pc = "done"
    /\ fooKey \in DOMAIN calls[1].req.params
    /\ calls[1].result.code = "InvalidArgument"

\* the number of "/" in the id is not two
NotThreeSegments(id) == Cardinality({i \in DOMAIN id : id[i] = Slash}) # 2

\* C9: a DeleteVolume with a non-empty id that is not three segments
\* returns success and has called neither the Mounter nor the file system
C9_UndecodableDeleteStep ==
    \A c \in Calls :
        (/\ calls'[c] # calls[c]
         /\ calls'[c].op = "delete"
         /\ calls'[c].req.volumeId # <<>>
         /\ NotThreeSegments(calls'[c].req.volumeId))
            => /\ calls'[c].pc = "done"
               /\ calls'[c].result = Ok(NoVolume)
               /\ NoSideEffects(c)

C9_UndecodableDeleteSucceeds == [][C9_UndecodableDeleteStep]_vars

\* a delete of a four-segment id has returned while a directory exists
C9_Witness ==
    /\ calls[1].op = "delete"
    /\ calls[1].pc = "done"
    /\ calls[1].req.volumeId = Id(sv, bd, <<"v", Slash>>)
    /\ calls[1].result.code = "OK"
    /\ lastCreated # NoCreated

\* a delete of the id that the last successful create returned, with a
\* name from names, has returned and neither its mount nor its removal
\* failed
DeletedCreated(c, names) ==
    /\ calls[c].op = "delete"
    /\ calls[c].pc = "done"
    /\ lastCreated # NoCreated
    /\ calls[c].req.volumeId = lastCreated.id
    /\ \E s \in Servers, b \in BaseDirs, n \in names : lastCreated.id = Id(s, b, n)
    /\ calls[c].mountCalls # <<>> => calls[c].mounted
    /\ calls[c].dirop # "err"

DeleteRemovesCreated(names) ==
    \A c \in Calls :
        DeletedCreated(c, names)
            => /\ calls[c].result.code = "OK"
               /\ lastCreated.target \notin dirs

\* C10: a DeleteVolume with the id a successful CreateVolume returned
\* removes the directory provisioned and returns success, the first time
\* and every later time
C10_DeleteRemovesCreated == DeleteRemovesCreated(Names)

\* what holds of C10: the same for names without "/"
C10_DeleteRemovesPlainNames == DeleteRemovesCreated({n \in Names : NoSlash(n)})

-----------------------------------------------------------------------------
(* Claims about failures *)

\* C11: a CreateVolume whose sub-directory already exists when Mkdir runs
\* gets Internal, the directories stay as they were, and the handler goes
\* on to its detach, which is called before it returns
C11_ExistingDirStep ==
    \A c \in Calls :
        /\ (/\ calls[c].op = "create"
             /\ calls[c].pc = "dirop"
             /\ calls'[c] # calls[c]
             /\ calls'[c].target \in dirs)
               => /\ calls'[c].result = Error("Internal")
                  /\ dirs' = dirs
                  /\ calls'[c].pc = "unmount"
        /\ (/\ calls[c].op = "create"
             /\ calls[c].dirop = "err"
             /\ calls[c].pc # "done"
             /\ calls'[c].pc = "done")
               => /\ calls'[c].op = "create"
                  /\ calls'[c].result = Error("Internal")
                  /\ calls'[c].unmountCalls
                        = <<FilepathJoin(<<workingMountDir, calls[c].req.name>>)>>
                  /\ dirs' = dirs

C11_ExistingDirIsInternal == [][C11_ExistingDirStep]_vars

\* a create has returned Internal for the directory that the last
\* successful create made, which still exists, and has detached
C11_Witness ==
    \E c \in Calls :
        /\ calls[c].op = "create"
        /\ calls[c].pc = "done"
        /\ calls[c].dirop = "err"
        /\ calls[c].result = Error("Internal")
        /\ lastCreated # NoCreated
        /\ calls[c].target = lastCreated.target
        /\ calls[c].target \in dirs
        /\ Len(calls[c].unmountCalls) = 1

-----------------------------------------------------------------------------
(* Claims about repeated calls *)

\* the call in slot c repeated the request of the call before it, which
\* had returned with one of the codes, and has returned
Repeated(c, codes) ==
    /\ calls[c].pc = "done"
    /\ calls[c].before.repeat
    /\ calls[c].before.code \in codes

C12_DeleteWitness ==
    /\ Repeated(1, {"OK"})
    /\ mounter = "real"
    /\ calls[1].op = "delete"
    /\ calls[1].dirop = "ok"
    /\ lastCreated # NoCreated
    /\ calls[1].target = lastCreated.target

-----------------------------------------------------------------------------
(* Claims about attach and removal failures *)

\* C13: a step of internalMount that attaches nothing ends the call with
\* Internal and without a directory operation; a RemoveAll step that
\* reports an error, or that leaves an existing target in place, gives
\* Internal
C13_FailureStep ==
    \A c \in Calls :
        /\ (/\ calls[c].pc = "mount"
             /\ calls'[c] # calls[c]
             /\ mountPoints' = mountPoints)
               => /\ calls'[c].pc = "done"
                  /\ calls'[c].op = calls[c].op
                  /\ calls'[c].result = Error("Internal")
                  /\ calls'[c].dirop = "none"
                  /\ calls'[c].unmountCalls = <<>>
                  /\ dirs' = dirs
        /\ (/\ calls[c].pc = "dirop"
             /\ calls[c].op = "delete"
             /\ calls'[c] # calls[c]
             /\ \/ calls'[c].dirop = "err"
                \/ calls'[c].target \in dirs \cap dirs')
               => calls'[c].result = Error("Internal")

C13_FailuresAreInternal == [][C13_FailureStep]_vars

\* a create whose attach failed has returned Internal without a directory
\* operation, and a delete whose removal failed has returned Internal
C13_Witness ==
    /\ calls[1].op = "create"
    /\ calls[1].pc = "done"
    /\ calls[1].mountCalls # <<>>
    /\ ~calls[1].mounted
    /\ calls[1].result = Error("Internal")
    /\ calls[2].op = "delete"
    /\ calls[2].pc = "done"
    /\ calls[2].dirop = "err"
    /\ calls[2].result = Error("Internal")

\* C14: a DeleteVolume with an empty id returns InvalidArgument and has
\* called neither the Mounter nor the file system
C14_EmptyIdStep ==
    \A c \in Calls :
        (/\ calls'[c] # calls[c]
         /\ calls'[c].op = "delete"
         /\ calls'[c].req.volumeId = <<>>)
            => /\ calls'[c].pc = "done"
               /\ calls'[c].result = Error("InvalidArgument")
               /\ NoSideEffects(c)

C14_EmptyIdIsInvalid == [][C14_EmptyIdStep]_vars

\* a delete with an empty id has been rejected while a created directory
\* exists
C14_Witness ==
    /\ calls[1].op = "delete"
    /\ calls[1].pc = "done"
    /\ calls[1].req.volumeId = <<>>
    /\ calls[1].result = Error("InvalidArgument")
    /\ lastCreated # NoCreated
    /\ lastCreated.target \in dirs

-----------------------------------------------------------------------------
(* Capability validation on its own: validateVolumeCapabilities applied to *)
(* a capability list, and CreateVolume called with the same list           *)

AccessModes == {NilMode, "UNKNOWN", "SINGLE_NODE_WRITER", "MULTI_NODE_MULTI_WRITER"}
AccessTypes == {"nil", "mount", "block"}

Capabilities ==
    {Nil} \cup {[accessMode |-> m, accessType |-> t] : m \in AccessModes, t \in AccessTypes}

AllCapLists == UNION {[1..n -> Capabilities] : n \in 0..MaxCapLen}

InitCaps ==
    /\ driver = NewNFSdriver
    /\ mounter = "fake"
    /\ mountPoints = <<>>
    /\ dirs = InitDirs
    /\ calls = [c \in Calls |-> IdleCall]
    /\ ncalls = 0
    /\ lastCreated = NoCreated
    /\ detachFailed = FALSE
    /\ codecIn = NoCodec
    /\ codecOut = NoCodecOut
    /\ parseIn = NoParse
    /\ parseOut = NoParseOut
    /\ capsIn \in AllCapLists
    /\ capsOut = NoCapsOut

\* validateVolumeCapabilities(caps) returns
ValidateCaps ==
    /\ ~capsOut.done
    /\ capsOut' = [done |-> TRUE, err |-> validateVolumeCapabilities(driver, capsIn)]
    /\ UNCHANGED <<workflowVars, codecVars, paramVars, capsIn>>

\* CreateVolume is called with the list, a name and valid parameters
CreateWithCaps ==
    CreateVolume(1, CreateVolumeRequest(<<"v">>, capsIn, Params(sv, bd), 0))

NextCaps == ValidateCaps \/ CreateWithCaps

SpecCaps == InitCaps /\ [][NextCaps]_vars

-----------------------------------------------------------------------------
(* Claims about capability validation *)

\* the list is non-empty and every descriptor is there, with a supported
\* access mode and the mount access type
Acceptable(caps) ==
    /\ Len(caps) > 0
    /\ \A i \in DOMAIN caps :
         /\ caps[i] # Nil
         /\ caps[i].accessMode # NilMode
         /\ caps[i].accessMode \in driver.cap
         /\ caps[i].accessType # "nil"
         /\ caps[i].accessType = "mount"

\* C16: the validator accepts exactly the acceptable lists, and
\* CreateVolume answers every other list with InvalidArgument
C16_ValidatorExact ==
    /\ capsOut.done => (capsOut.err = "nil" <=> Acceptable(capsIn))
    /\ calls[1].op = "create" =>
         IF Acceptable(capsIn) THEN calls[1].pc = "mount"
         ELSE /\ calls[1].pc = "done"
              /\ calls[1].result = Error("InvalidArgument")

\* a list whose second descriptor has an unsupported access mode was
\* rejected by the validator and by CreateVolume
C16_Witness ==
    /\ capsIn = <<ValidCap, [accessMode |-> "UNKNOWN", accessType |-> "mount"]>>
    /\ capsOut.done
    /\ capsOut.err # "nil"
    /\ calls[1].result = Error("InvalidArgument")

-----------------------------------------------------------------------------
(* Claims about parameter parsing *)

\* the values the map gives for the keys that are one of ks
ValuesOf(pm, ks) == {pm[k] : k \in DOMAIN pm \cap ks}

\* every key is "server" or "base-dir" in some letter case, both are
\* there, and with non-empty values only
WellFormedParams(pm) ==
    /\ DOMAIN pm \subseteq serverKeys \cup baseDirKeys
    /\ ValuesOf(pm, serverKeys) # {}
    /\ ValuesOf(pm, baseDirKeys) # {}
    /\ <<>> \notin ValuesOf(pm, serverKeys) \cup ValuesOf(pm, baseDirKeys)

\* at most one key of the map per lower-cased key
NoCaseDuplicates(pm) ==
    \A k1, k2 \in DOMAIN pm : ToLower(k1) = ToLower(k2) => k1 = k2

ParsingExactFor(pm) ==
    /\ parseOut.done =>
         /\ parseOut.res.err <=> ~WellFormedParams(pm)
         /\ ~parseOut.res.err =>
               LET vol == parseOut.res.vol IN
               /\ vol.subDir = parseIn.name
               /\ ValuesOf(pm, serverKeys) = {vol.server}
               /\ ValuesOf(pm, baseDirKeys) = {vol.baseDir}
               /\ vol.id = vol.server \o <<Slash>> \o vol.baseDir \o <<Slash>> \o parseIn.name
    /\ (calls[1].op = "create" /\ ~WellFormedParams(pm))
         => /\ calls[1].pc = "done"
            /\ calls[1].result = Error("InvalidArgument")

\* C15: newNFSVolume succeeds exactly for the maps whose keys, lower-cased,
\* are server and base-dir with non-empty values, and then yields the
\* volume of that server, base-dir and name; CreateVolume answers every
\* other map with InvalidArgument
C15_ParsingExact == ParsingExactFor(parseIn.params)

\* what holds of C15: the same for maps without two keys that differ in
\* letter case only
C15_ParsingExactWithoutDuplicates ==
    NoCaseDuplicates(parseIn.params) => ParsingExactFor(parseIn.params)

-----------------------------------------------------------------------------
(* Claims about termination *)

\* C17: a handler that has not returned can always take its next step,
\* whatever the other handler does, and every call returns
C17_NextStepEnabled == \A c \in Calls : InProgress(c) => ENABLED HandlerStep(c)

C17_Returns == \A c \in Calls : InProgress(c) ~> calls[c].pc = "done"

C17_EveryCallReturns == []C17_NextStepEnabled /\ C17_Returns

\* both handlers are in progress on the same attach path, one of them
\* attached
C17_Witness ==
    /\ InProgress(1)
    /\ InProgress(2)
    /\ calls[1].vol.subDir = calls[2].vol.subDir
    /\ Attached(1)
    /\ calls[2].pc = "mount"

-----------------------------------------------------------------------------
(* Claims about the driver configuration *)

\* C18: no step changes the driver configuration, it is the one that
\* NewNFSdriver built, and ControllerGetCapabilities answers with its
\* controller capabilities
C18_ConfigStep ==
    /\ driver' = driver
    /\ driver = [cap |-> vcam, cscap |-> <<"CREATE_DELETE_VOLUME">>]
    /\ \A c \in Calls :
         calls'[c].op = "getcaps"
            => calls'[c].capabilities = <<"CREATE_DELETE_VOLUME">>

C18_ConfigReadOnly == [][C18_ConfigStep]_vars

\* ControllerGetCapabilities has answered after a volume was created
C18_Witness ==
    /\ calls[1].op = "getcaps"
    /\ calls[1].pc = "done"
    /\ calls[1].capabilities = <<"CREATE_DELETE_VOLUME">>
    /\ lastCreated # NoCreated

-----------------------------------------------------------------------------
(* Claims about the order of the steps *)

\* C19: the directory operation of a call runs after its attach succeeded
\* and before its detach is invoked, the detach is invoked after the
\* directory operation, and a call that attached returns after its detach
C19_OrderStep ==
    \A c \in Calls :
        /\ (calls'[c].dirop # calls[c].dirop /\ calls'[c].dirop # "none")
             => /\ calls[c].mounted
                /\ Len(calls[c].mountCalls) = 1
                /\ calls[c].unmountCalls = <<>>
                /\ calls'[c].unmountCalls = <<>>
                /\ calls'[c].pc # "done"
        /\ (calls'[c].unmountCalls # calls[c].unmountCalls /\ calls'[c].unmountCalls # <<>>)
             => /\ calls[c].mounted
                /\ calls[c].dirop # "none"
        /\ (calls[c].pc # "done" /\ calls'[c].pc = "done" /\ calls[c].mounted)
             => /\ calls'[c].unmountCalls # <<>>
                /\ calls'[c].result = calls[c].result

C19_AttachDiropDetach == [][C19_OrderStep]_vars

\* a delete has returned after its three steps while the other handler is
\* between its attach and its detach
C19_Witness ==
    /\ calls[2].op = "delete"
    /\ calls[2].pc = "done"
    /\ calls[2].mounted
    /\ calls[2].dirop = "ok"
    /\ Len(calls[2].unmountCalls) = 1
    /\ Attached(1)

-----------------------------------------------------------------------------
(* Claims about what DeleteVolume removes *)

\* the working mount root
WorkingRoot == <<Local, CleanComps(<<>>, Split(workingMountDir, Slash))>>

\* directory x is the sub-directory that the volume's subDir names, or lies
\* in it: on the export server:/baseDir, or under the working mount root
WithinNamed(x, vol) ==
    LET n == CleanComps(<<>>, Split(vol.subDir, Slash)) IN
    /\ n # <<>>
    /\ \/ /\ x[1] = vol.server
          /\ IsPrefix(CleanComps(<<>>, Split(vol.baseDir, Slash)) \o n, x[2])
       \/ /\ x[1] = Local
          /\ IsPrefix(WorkingRoot[2] \o n \o n, x[2])

\* every step of a DeleteVolume with one of the ids removes directories of
\* the named sub-directory only, and not the working mount root
DeleteStepWithin(ids) ==
    \A c \in Calls :
        (/\ calls'[c].op = "delete"
         /\ calls'[c] # calls[c]
         /\ calls'[c].req.volumeId \in ids)
            => /\ \A x \in dirs \ dirs' : WithinNamed(x, calls'[c].vol)
               /\ WorkingRoot \in dirs => WorkingRoot \in dirs'

\* C20: DeleteVolume with any id removes at most the sub-directory that the
\* id's subDir names; the working mount root and the sub-directories of the
\* other volumes stay
C20_DeleteRemovesOnlyNamed == [][DeleteStepWithin(VolumeIds)]_vars

\* what holds of C20: the same for the ids without an empty subDir segment
C20_DeleteRemovesOnlyNamedSubDir ==
    [][DeleteStepWithin(VolumeIds \ {Id(s, b, <<>>) : s \in Servers, b \in BaseDirs})]_vars

-----------------------------------------------------------------------------
(* Claims about the ids that CreateVolume returns *)

\* a CreateVolume with a name from names has returned success in slot c
Created(c, names) ==
    /\ calls[c].op = "create"
    /\ calls[c].pc = "done"
    /\ calls[c].result.code = "OK"
    /\ calls[c].req.name \in names

\* the id returned in slot c decodes to the server, base-dir and name of
\* the request, and DeleteVolume with it goes on to the directory that the
\* create made
ReturnedIdDecodes(c) ==
    LET id == calls[c].result.volume.volumeId
        r == getNfsVolFromId(id)
        d == DeleteVolumeDecode(DeleteVolumeRequest(id))
    IN /\ ~r.err
       /\ \E s \in Servers, b \in BaseDirs :
            /\ calls[c].req.params = Params(s, b)
            /\ r.vol.server = s
            /\ r.vol.baseDir = b
       /\ r.vol.subDir = calls[c].req.name
       /\ d.code = "mount"
       /\ getInternalVolumePath(d.vol) = calls[c].internalVolumePath

\* C21: every id that a successful CreateVolume returns is accepted by
\* decode and decodes to the server, baseDir and subDir of the create, so
\* that DeleteVolume with it addresses the directory created
C21_ReturnedIdDecodes ==
    \A c \in Calls : Created(c, Names) => ReturnedIdDecodes(c)

\* what holds of C21: the same for names without "/"
C21_ReturnedIdDecodesPlainNames ==
    \A c \in Calls : Created(c, {n \in Names : NoSlash(n)}) => ReturnedIdDecodes(c)

-----------------------------------------------------------------------------
(* Claims about leaked attachments *)

\* C22: when no call is in progress and no detach has failed, nothing is
\* attached; and a call invokes detach only for the path that it has
\* attached itself
C22_NoLeakedAttachment ==
    /\ ((\A c \in Calls : ~InProgress(c)) /\ ~detachFailed) => mountPoints = <<>>
    /\ \A c \in Calls :
         calls[c].unmountCalls # <<>>
            => /\ calls[c].mounted
               /\ calls[c].unmountCalls = calls[c].mountCalls

\* two calls that attached the same path have both returned, no detach has
\* failed and nothing is attached
C22_Witness ==
    /\ \A c \in Calls : calls[c].pc = "done" /\ calls[c].mounted
    /\ calls[1].mountCalls = calls[2].mountCalls
    /\ calls[1].req # calls[2].req
    /\ ~detachFailed
    /\ mountPoints = <<>>

-----------------------------------------------------------------------------
(* Claims about CreateVolume as a function of its request *)

\* two evaluations of one request, from the same file system and with no
\* Mounter call made: newNFSVolume on the name and the map, and the
\* CreateVolume call in slot 1, which is past newNFSVolume
TwoRuns ==
    /\ parseOut.done
    /\ calls[1].op = "create"
    /\ calls[1].req.name = parseIn.name /\ calls[1].req.params = parseIn.params

SameOutcome ==
    /\ parseOut.res.err <=> calls[1].pc = "done"
    /\ parseOut.res.err => calls[1].result = Error("InvalidArgument")
    /\ ~parseOut.res.err =>
          /\ calls[1].vol = parseOut.res.vol
          /\ getVolumeIdFromNfsVol(calls[1].vol) = getVolumeIdFromNfsVol(parseOut.res.vol)
          /\ nfsVolToCSI(calls[1].vol, 0) = nfsVolToCSI(parseOut.res.vol, 0)

\* C23: CreateVolume is a function of its request: two runs of one request,
\* from the same file system and Mounter outcomes, give the same volume id
\* and context, also when the map holds keys that differ in letter case only
C23_CreateDeterministic == TwoRuns => SameOutcome

\* what holds of C23: the same for maps without two keys that differ in
\* letter case only
C23_CreateDeterministicWithoutDuplicates ==
    (TwoRuns /\ NoCaseDuplicates(parseIn.params)) => SameOutcome

====
